---- MODULE Spec2Model ----
(***************************************************************************)
(* nanorand: the WyRand generator (src/rand/wyrand.rs) and the typed       *)
(* generation layer built on it (src/gen.rs).                              *)
(*                                                                         *)
(* Machine integers are sequences of bytes, least significant byte first,  *)
(* so that 64- and 128-bit arithmetic is exact.  A value of W bytes is a   *)
(* sequence of length W; signed values are two's complement.               *)
(***************************************************************************)
EXTENDS Integers, Sequences, FiniteSets, TLC

VARIABLES target, seed, steps, last

vars == <<target, seed, steps, last>>

(***************************************************************************)
(* Bounds of the model.                                                    *)
(***************************************************************************)
\* rand() calls a generator may make after construction or a reseed
MaxSteps == 2
\* iterations of the rejection loop followed before the call counts as still running
MaxDraws == 3

(***************************************************************************)
(* Byte-sequence arithmetic.                                               *)
(***************************************************************************)
\* the byte sequence with the bytes f[1], ..., f[n]
Bytes(f) == f \o <<>>

Zeros(n) == Bytes([i \in 1..n |-> 0])

RECURSIVE xor_byte(_, _)
xor_byte(a, b) ==
    IF a = 0 THEN b
    ELSE IF b = 0 THEN a
    ELSE ((a + b) % 2) + 2 * xor_byte(a \div 2, b \div 2)

\* a ^ b
BitXor(a, b) == Bytes([i \in 1..Len(a) |-> xor_byte(a[i], b[i])])

\* !a
BitNot(a) == Bytes([i \in 1..Len(a) |-> 255 - a[i]])

RECURSIVE add_from(_, _, _, _)
add_from(a, b, i, c) ==
    IF i > Len(a) THEN <<>>
    ELSE LET s == a[i] + b[i] + c
         IN  <<s % 256>> \o add_from(a, b, i + 1, s \div 256)

\* a.wrapping_add(b): the sum modulo 2^(8 * Len(a))
wrapping_add(a, b) == add_from(a, b, 1, 0)

One(n) == Bytes([i \in 1..n |-> IF i = 1 THEN 1 ELSE 0])

\* a.wrapping_neg()
wrapping_neg(a) == wrapping_add(BitNot(a), One(Len(a)))

\* a.wrapping_sub(b)
wrapping_sub(a, b) == wrapping_add(a, wrapping_neg(b))

IsNeg(a) == a[Len(a)] >= 128

IsZero(a) == \A i \in 1..Len(a) : a[i] = 0

\* the most significant position where a and b differ, 0 when they are equal
RECURSIVE top_diff(_, _, _)
top_diff(a, b, i) ==
    IF i = 0 THEN 0
    ELSE IF a[i] # b[i] THEN i
    ELSE top_diff(a, b, i - 1)

\* a < b, unsigned
ult(a, b) ==
    LET i == top_diff(a, b, Len(a))
    IN  i # 0 /\ a[i] < b[i]

\* a < b, two's complement
slt(a, b) ==
    IF IsNeg(a) # IsNeg(b) THEN IsNeg(a) ELSE ult(a, b)

\* a < b in the signedness sg
lt(a, b, sg) == IF sg THEN slt(a, b) ELSE ult(a, b)

\* `v as T` between integer types: truncation, or sign/zero extension by the
\* signedness sg of the source type
Cast(v, sg, n) ==
    IF n <= Len(v) THEN SubSeq(v, 1, n)
    ELSE v \o [i \in 1..(n - Len(v)) |-> IF sg /\ IsNeg(v) THEN 255 ELSE 0]

\* the sum of the byte products a[i] * b[j] with i + j = k + 1, from i on
RECURSIVE col_sum(_, _, _, _)
col_sum(a, b, k, i) ==
    IF i > k \/ i > Len(a) THEN 0
    ELSE a[i] * b[k + 1 - i] + col_sum(a, b, k, i + 1)

RECURSIVE mul_from(_, _, _, _, _)
mul_from(a, b, k, n, c) ==
    IF k > n THEN <<>>
    ELSE LET first == IF k > Len(b) THEN k + 1 - Len(b) ELSE 1
             s     == col_sum(a, b, k, first) + c
         IN  <<s % 256>> \o mul_from(a, b, k + 1, n, s \div 256)

\* the low n bytes of the product of the unsigned byte sequences a and b
MulLow(a, b, n) == mul_from(a, b, 1, n, 0)

\* a.wrapping_mul(b)
wrapping_mul(a, b) == MulLow(a, b, Len(a))

\* |a| as an unsigned value of the same width
Magnitude(a) == IF IsNeg(a) THEN wrapping_neg(a) ELSE a

NegateIf(c, m) == IF c THEN wrapping_neg(m) ELSE m

\* the exact product of a and b (one type, signedness sg) at twice their width
WideMul(a, b, sg) ==
    IF sg
    THEN NegateIf(IsNeg(a) # IsNeg(b), MulLow(Magnitude(a), Magnitude(b), 2 * Len(a)))
    ELSE MulLow(a, b, 2 * Len(a))

\* the product in a type of n bytes, given the exact one: the wrapped value
\* and whether the exact product is not representable in the type
Wrapped(exact, n, sg) ==
    [value    |-> SubSeq(exact, 1, n),
     overflow |-> Cast(SubSeq(exact, 1, n), sg, 2 * n) # exact]

\* a * b in the type of a and b: the wrapped product, and the overflow that a
\* build with overflow checks panics on
Mul(a, b, sg) == Wrapped(WideMul(a, b, sg), Len(a), sg)

\* v >> k (k < 8 * Len(v)): logical for unsigned, arithmetic for signed
ShiftRight(v, k, sg) ==
    LET n    == Len(v)
        fill == IF sg /\ IsNeg(v) THEN 255 ELSE 0
        q    == k \div 8
        r    == k % 8
        at(i) == IF i <= n THEN v[i] ELSE fill
    IN  Bytes([i \in 1..n |->
            IF r = 0 THEN at(i + q)
            ELSE (at(i + q) \div (2 ^ r)) + ((at(i + q + 1) % (2 ^ r)) * (2 ^ (8 - r)))])

RECURSIVE umod(_, _)
umod(a, b) == IF ult(a, b) THEN a ELSE umod(wrapping_sub(a, b), b)

\* a % b on signed operands (b # 0): the remainder takes the sign of a
srem(a, b) ==
    LET m == umod(Magnitude(a), Magnitude(b))
    IN  IF IsNeg(a) THEN wrapping_neg(m) ELSE m

MinValue(n) == Bytes([i \in 1..n |-> IF i = n THEN 128 ELSE 0])

Reverse(s) == Bytes([i \in 1..Len(s) |-> s[Len(s) + 1 - i]])

(***************************************************************************)
(* The build: byte order and pointer width of the target, and whether      *)
(* arithmetic overflow is checked (debug profile) or wraps (release).      *)
(***************************************************************************)
Targets ==
    [endian : {"little"}, overflow_checks : BOOLEAN, pointer_bytes : {8}]
        \cup [endian : {"big"}, overflow_checks : BOOLEAN, pointer_bytes : {4}]

\* T::from_ne_bytes(bytes)
from_ne_bytes(tg, bytes) == IF tg.endian = "little" THEN bytes ELSE Reverse(bytes)

\* v.to_ne_bytes()
to_ne_bytes(tg, v) == IF tg.endian = "little" THEN v ELSE Reverse(v)

\* buf.iter_mut().zip(src).for_each(|(a, b)| *a = *b)
zip_copy(buf, src) ==
    Bytes([i \in 1..Len(buf) |-> IF i <= Len(src) THEN src[i] ELSE buf[i]])

(***************************************************************************)
(* WyRand                                                                  *)
(***************************************************************************)
\* 0xa0761d6478bd642f
WY_ADD == <<47, 100, 189, 120, 100, 29, 118, 160>>
\* 0xe7037ed1a0b428db
WY_XOR == <<219, 40, 180, 160, 209, 126, 3, 231>>

\* rand with the output mixed from the state before the addition
rand_stale(tg, s) ==
    LET s1  == wrapping_add(s, WY_ADD)
        t   == wrapping_mul(Cast(s, FALSE, 16), Cast(BitXor(s, WY_XOR), FALSE, 16))
        ret == Cast(BitXor(ShiftRight(t, 64, FALSE), t), FALSE, 8)
    IN  [seed |-> s1, out |-> to_ne_bytes(tg, ret)]

\* WyRand::rand: [seed |-> the new state, out |-> the bytes returned]
rand(tg, s) ==
    LET s1  == wrapping_add(s, WY_ADD)
        t   == wrapping_mul(Cast(s1, FALSE, 16), Cast(BitXor(s1, WY_XOR), FALSE, 16))
        ret == Cast(BitXor(ShiftRight(t, 64, FALSE), t), FALSE, 8)
    IN  [seed |-> s1, out |-> to_ne_bytes(tg, ret)]

\* rand_with_seed with the seed bytes cycled to fill the state instead of
\* zero-padded
rand_with_seed_cycled(tg, bytes) ==
    LET seed_bytes == IF Len(bytes) = 0 THEN Zeros(8)
                      ELSE Bytes([i \in 1..8 |-> bytes[((i - 1) % Len(bytes)) + 1]])
        s0  == from_ne_bytes(tg, seed_bytes)
        s1  == wrapping_add(s0, WY_ADD)
        t   == wrapping_mul(Cast(s1, FALSE, 16), Cast(BitXor(s1, WY_XOR), FALSE, 16))
        ret == Cast(BitXor(ShiftRight(t, 64, FALSE), t), FALSE, 8)
    IN  to_ne_bytes(tg, ret)

\* WyRand::rand_with_seed
rand_with_seed(tg, bytes) ==
    LET seed_bytes == zip_copy(Zeros(8), bytes)
        s0  == from_ne_bytes(tg, seed_bytes)
        s1  == wrapping_add(s0, WY_ADD)
        t   == wrapping_mul(Cast(s1, FALSE, 16), Cast(BitXor(s1, WY_XOR), FALSE, 16))
        ret == Cast(BitXor(ShiftRight(t, 64, FALSE), t), FALSE, 8)
    IN  to_ne_bytes(tg, ret)

\* reseed reading the buffer as little-endian on every target
reseed_le(tg, new_seed) == zip_copy(Zeros(8), new_seed)

\* WyRand::reseed: the new state
reseed(tg, new_seed) == from_ne_bytes(tg, zip_copy(Zeros(8), new_seed))

(***************************************************************************)
(* Typed generation (gen.rs)                                               *)
(***************************************************************************)
\* the rows of randomgen_number!: (unsigned, signed, bigger_unsigned, bigger_signed)
Rows ==
    { <<"u8", "i8", "u16", "i16">>,
      <<"u16", "i16", "u32", "i32">>,
      <<"u32", "i32", "u64", "i16">>,
      <<"u64", "i64", "u128", "i128">>,
      <<"u128", "i128", "u128", "i128">>,
      <<"usize", "isize", "u128", "i128">> }

UnsignedTypes == {row[1] : row \in Rows}
SignedTypes == {row[2] : row \in Rows}
IntTypes == UnsignedTypes \cup SignedTypes

Signed(T) == T \in SignedTypes

\* core::mem::size_of::<T>()
size_of(tg, T) ==
    CASE T \in {"u8", "i8"} -> 1
      [] T \in {"u16", "i16"} -> 2
      [] T \in {"u32", "i32"} -> 4
      [] T \in {"u64", "i64"} -> 8
      [] T \in {"u128", "i128"} -> 16
      [] T \in {"usize", "isize"} -> tg.pointer_bytes

\* $bigger_unsigned of an unsigned type, $bigger_signed of a signed one
bigger(T) ==
    LET row == CHOOSE r \in Rows : T \in {r[1], r[2]}
    IN  IF T = row[1] THEN row[3] ELSE row[4]

\* the signed type of the row of T ($signed)
signed_of(T) == (CHOOSE r \in Rows : T \in {r[1], r[2]})[2]

\* the unsigned type of the row of T ($unsigned)
unsigned_of(T) == (CHOOSE r \in Rows : T \in {r[1], r[2]})[1]

\* const BIT_SIZE: usize = core::mem::size_of::<T>() * 8
BIT_SIZE(tg, T) == size_of(tg, T) * 8

\* RandomGen::random for an integer type: [seed |-> new state, value |-> the T]
random(tg, s, T) ==
    LET g     == rand(tg, s)
        bytes == zip_copy(Zeros(size_of(tg, T)), g.out)
    IN  [seed |-> g.seed, value |-> from_ne_bytes(tg, bytes)]

\* RNG::generate::<T>(): a random instance of the type the call site asks for
generate(tg, s, T) == random(tg, s, T)

\* a.max(b) with the operands compared as unsigned whatever the type
max_unsigned(a, b, sg) == IF ult(a, b) THEN b ELSE a

\* a.max(b) in the signedness sg
max(a, b, sg) == IF lt(a, b, sg) THEN b ELSE a

\* multiresult = random_bigger * (upper as $bigger); leftover = multiresult as T
Multiply(tg, T, g, m) ==
    [seed          |-> g.seed,
     random_bigger |-> g.value,
     overflow      |-> m.overflow,
     multiresult   |-> m.value,
     leftover      |-> Cast(m.value, Signed(bigger(T)), size_of(tg, T))]

Widen(tg, T, g, upper) ==
    Multiply(tg, T, g,
             Mul(g.value, Cast(upper, Signed(T), size_of(tg, bigger(T))), Signed(bigger(T))))

\* One draw of random_range for T:
\*   random_bigger = r.generate();
\*   multiresult = random_bigger * (upper as $bigger);
\*   leftover = multiresult as T;
Draw(tg, s, T, upper) == Widen(tg, T, generate(tg, s, bigger(T)), upper)

\* What a call of random_range did.  status is "ok" (value is returned),
\* "panic" (the call unwound with the message in panic) or "running" (the
\* rejection loop was still drawing after MaxDraws redraws).  d is the last
\* draw made, leftovers the leftover of every draw in order, threshold the
\* threshold once computed; branch is "low" or "high" once the tail chose how
\* to take the result from multiresult, shift the shift it asked for, drawn
\* the value taken before it is combined with lower.
Outcome(status, panic, d, entered, threshold, leftovers, branch, shift, drawn, value) ==
    [status        |-> status,
     panic         |-> panic,
     value         |-> value,
     seed          |-> d.seed,
     random_bigger |-> d.random_bigger,
     multiresult   |-> d.multiresult,
     overflow      |-> d.overflow,
     entered       |-> entered,
     threshold     |-> threshold,
     leftovers     |-> leftovers,
     branch        |-> branch,
     shift         |-> shift,
     drawn         |-> drawn]

\* the call unwinding before the tail
Panic(msg, d, entered, threshold, leftovers) ==
    Outcome("panic", msg, d, entered, threshold, leftovers, "", -1, <<>>, <<>>)

\* (drawn).max(lower)
Combine(T, lower, d, entered, threshold, leftovers, branch, shift, drawn) ==
    Outcome("ok", "", d, entered, threshold, leftovers, branch, shift, drawn,
            max(drawn, lower, Signed(T)))

\* The tail of random_range, lines 80-84 / 112-116: the result is taken from
\* multiresult and combined with lower.  A shift by the width of the shifted
\* type or more panics under overflow checks and is masked to the width
\* otherwise.
Select(tg, T, lower, d, entered, threshold, leftovers) ==
    IF BIT_SIZE(tg, T) = size_of(tg, bigger(T))
    THEN Combine(T, lower, d, entered, threshold, leftovers, "low", -1,
                 Cast(d.multiresult, Signed(bigger(T)), size_of(tg, T)))
    ELSE IF BIT_SIZE(tg, T) >= 8 * size_of(tg, bigger(T)) /\ tg.overflow_checks
    THEN Outcome("panic", "attempt to shift right with overflow", d, entered,
                 threshold, leftovers, "high", BIT_SIZE(tg, T), <<>>, <<>>)
    ELSE Combine(T, lower, d, entered, threshold, leftovers, "high", BIT_SIZE(tg, T),
                 Cast(ShiftRight(d.multiresult,
                                 BIT_SIZE(tg, T) % (8 * size_of(tg, bigger(T))),
                                 Signed(bigger(T))),
                      Signed(bigger(T)), size_of(tg, T)))

RECURSIVE Reject(_, _, _, _, _, _, _)

\* the body of the rejection loop, lines 75-77 / 107-109, with the draw n made
Redraw(tg, T, lower, upper, threshold, n, leftovers) ==
    IF n.overflow /\ tg.overflow_checks
    THEN Panic("attempt to multiply with overflow", n, TRUE, threshold,
               Append(leftovers, n.leftover))
    ELSE Reject(tg, T, lower, upper, threshold, n, Append(leftovers, n.leftover))

\* while leftover < threshold { redraw }, lines 74-78 / 106-110, then the tail
Reject(tg, T, lower, upper, threshold, d, leftovers) ==
    IF ~lt(d.leftover, threshold, Signed(T))
    THEN Select(tg, T, lower, d, TRUE, threshold, leftovers)
    ELSE IF Len(leftovers) > MaxDraws
    THEN Outcome("running", "", d, TRUE, threshold, leftovers, "", -1, <<>>, <<>>)
    ELSE Redraw(tg, T, lower, upper, threshold, Draw(tg, d.seed, T, upper), leftovers)

\* -(upper as $signed) % (upper as $signed), evaluated in $signed, for the
\* bytes us of upper: [panic |-> message or "", value |-> the remainder]
Threshold(tg, us) ==
    IF us = MinValue(Len(us)) /\ tg.overflow_checks
    THEN [panic |-> "attempt to negate with overflow", value |-> <<>>]
    ELSE IF IsZero(us)
    THEN [panic |-> "attempt to calculate the remainder with a divisor of zero",
          value |-> <<>>]
    ELSE [panic |-> "", value |-> srem(wrapping_neg(us), us)]

\* lines 73-79 / 105-111: the threshold th computed, the loop and the tail
Debias(tg, T, lower, upper, d, th) ==
    IF th.panic # ""
    THEN Panic(th.panic, d, TRUE, <<>>, <<d.leftover>>)
    ELSE Reject(tg, T, lower, upper, th.value, d, <<d.leftover>>)

\* impl RandomRange for $unsigned, from the first draw d on
range_unsigned(tg, T, lower, upper, d) ==
    IF d.overflow /\ tg.overflow_checks
    THEN Panic("attempt to multiply with overflow", d, FALSE, <<>>, <<d.leftover>>)
    ELSE IF ult(d.leftover, upper)
    THEN Debias(tg, T, lower, upper, d,
                Threshold(tg, Cast(upper, FALSE, size_of(tg, signed_of(T)))))
    ELSE Select(tg, T, lower, d, FALSE, <<>>, <<d.leftover>>)

\* impl RandomRange for $unsigned
random_range_unsigned(tg, s, T, lower, upper) ==
    range_unsigned(tg, T, lower, upper, Draw(tg, s, T, upper))

\* impl RandomRange for $signed, from the first draw d on
range_signed(tg, T, lower, upper, d) ==
    IF d.overflow /\ tg.overflow_checks
    THEN Panic("attempt to multiply with overflow", d, FALSE, <<>>, <<d.leftover>>)
    ELSE IF slt(d.leftover, upper)
    THEN Debias(tg, T, lower, upper, d,
                Threshold(tg, Cast(upper, TRUE, size_of(tg, signed_of(T)))))
    ELSE Select(tg, T, lower, d, FALSE, <<>>, <<d.leftover>>)

\* impl RandomRange for $signed
random_range_signed(tg, s, T, lower, upper) ==
    range_signed(tg, T, lower, upper, Draw(tg, s, T, upper))

\* T::random_range(r, lower, upper)
random_range(tg, s, T, lower, upper) ==
    IF Signed(T)
    THEN random_range_signed(tg, s, T, lower, upper)
    ELSE random_range_unsigned(tg, s, T, lower, upper)

(***************************************************************************)
(* Inputs                                                                  *)
(***************************************************************************)
\* `k as T` for a small integer k, at n bytes
FromInt(k, n) ==
    IF k >= 0 THEN Bytes([i \in 1..n |-> IF i = 1 THEN k ELSE 0])
    ELSE wrapping_neg(Bytes([i \in 1..n |-> IF i = 1 THEN -k ELSE 0]))

\* the values lower and upper are drawn from, for a type of n bytes: small
\* ones, the all-ones pattern (-1, or the largest unsigned value) and the
\* pattern with only the top bit set
Args(n) == {FromInt(k, n) : k \in {-1, 0, 1, 3}} \cup {MinValue(n)}

SeedBytes == <<1, 35, 69, 103, 137, 171, 205, 239, 90>>

\* seeds handed to reseed and rand_with_seed: empty, shorter than the state,
\* the short one zero-padded, exactly the state width, and longer
SeedInputs ==
    {SubSeq(SeedBytes, 1, n) : n \in {0, 3, 8, Len(SeedBytes)}}
        \cup {zip_copy(Zeros(8), SubSeq(SeedBytes, 1, 3))}

\* states a generator is constructed with (WyRand::new takes any 64-bit word)
InitSeeds == {Zeros(8), wrapping_neg(WY_ADD)}

NoOutcome ==
    [status |-> "none", panic |-> "", value |-> <<>>, seed |-> <<>>,
     random_bigger |-> <<>>, multiresult |-> <<>>, overflow |-> FALSE,
     entered |-> FALSE, threshold |-> <<>>, leftovers |-> <<>>, branch |-> "",
     shift |-> -1, drawn |-> <<>>]

\* the record of a call: the operation, its arguments, the generator state it
\* started from, the bytes or value it returned and, for random_range, what it did
Call(op, typ, arg, lower, upper, before, out, res) ==
    [op |-> op, typ |-> typ, arg |-> arg, lower |-> lower, upper |-> upper,
     before |-> before, out |-> out, res |-> res]

GeneratorOps == {"new", "rand", "reseed"}

(***************************************************************************)
(* The state machine: one generator, owned by one caller.                  *)
(*   target  the build                                                     *)
(*   seed    WyRand.seed                                                   *)
(*   steps   calls that advanced the generator since it was (re)seeded     *)
(*   last    the latest call and its result                                *)
(***************************************************************************)
Init ==
    /\ target \in Targets
    /\ seed \in InitSeeds
    /\ steps = 0
    /\ last = Call("new", "", <<>>, <<>>, <<>>, <<>>, <<>>, NoOutcome)

\* the generator and the record of the call after a call that returned g
Returned(g, call) ==
    /\ seed' = g.seed
    /\ last' = call
    /\ steps' = steps + 1
    /\ UNCHANGED target

RandCall(g) == Call("rand", "", <<>>, <<>>, <<>>, seed, g.out, NoOutcome)

\* r.rand()
Rand ==
    /\ steps < MaxSteps
    /\ Returned(rand(target, seed), RandCall(rand(target, seed)))

\* r.reseed(s)
Reseed(s) ==
    /\ seed' = reseed(target, s)
    /\ steps' = 0
    /\ last' = Call("reseed", "", s, <<>>, <<>>, <<>>, <<>>, NoOutcome)
    /\ UNCHANGED target

\* WyRand::rand_with_seed(s)
RandWithSeed(s) ==
    /\ last.op \in GeneratorOps
    /\ last' = Call("rand_with_seed", "", s, <<>>, <<>>, seed,
                    rand_with_seed(target, s), NoOutcome)
    /\ UNCHANGED <<target, seed, steps>>

RandomCall(T, g) == Call("random", T, <<>>, <<>>, <<>>, seed, g.value, NoOutcome)

\* T::random(&mut r)
Random(T) ==
    /\ steps < MaxSteps
    /\ last.op \in GeneratorOps
    /\ Returned(random(target, seed, T), RandomCall(T, random(target, seed, T)))

RangeCall(T, lower, upper, res) ==
    Call("random_range", T, <<>>, lower, upper, seed, res.value, res)

\* T::random_range(&mut r, lower, upper)
RandomRange(T, lower, upper) ==
    /\ steps < MaxSteps
    /\ last.op \in GeneratorOps
    /\ last' = RangeCall(T, lower, upper, random_range(target, seed, T, lower, upper))
    /\ seed' = last'.res.seed
    /\ steps' = steps + 1
    /\ UNCHANGED target

Next ==
    \/ Rand
    \/ \E s \in SeedInputs : Reseed(s)
    \/ \E s \in SeedInputs : RandWithSeed(s)
    \/ \E T \in IntTypes : Random(T)
    \/ \E T \in IntTypes :
          \E lower, upper \in Args(size_of(target, T)) : RandomRange(T, lower, upper)

Spec == Init /\ [][Next]_vars

(***************************************************************************)
(* Properties                                                              *)
(***************************************************************************)
IsRange == last.op = "random_range"

\* the call in last is a random_range call that returned a value
RangeReturned == IsRange /\ last.res.status = "ok"

\* lower < upper in the type of the call
Ordered == lt(last.lower, last.upper, Signed(last.typ))

\* lower <= v < upper in the type T
InRange(T, lower, upper, v) == ~lt(v, lower, Signed(T)) /\ lt(v, upper, Signed(T))

\* C1: the value returned by random_range(r, lower, upper) with lower < upper
\* is below upper, for every integer type and every generator state.
C1_BelowUpper ==
    (RangeReturned /\ Ordered) => lt(last.out, last.upper, Signed(last.typ))

\* C2: the value returned by random_range(r, lower, upper) with lower < upper
\* is at least lower, compared in the signedness of the type.
C2_AtLeastLower ==
    (RangeReturned /\ Ordered) => ~lt(last.out, last.lower, Signed(last.typ))

\* a call whose draw was below lower and was raised to lower
C2_Witness ==
    /\ RangeReturned
    /\ Ordered
    /\ lt(last.res.drawn, last.lower, Signed(last.typ))
    /\ last.out = last.lower

\* every value the bigger type of an 8-bit type can hold
RawDraws == {Bytes(f) : f \in [1..2 -> 0..255]}

\* what the call does when its first draw is x
CallWith(tg, T, lower, upper, x) ==
    IF Signed(T)
    THEN range_signed(tg, T, lower, upper,
                      Widen(tg, T, [seed |-> Zeros(8), value |-> x], upper))
    ELSE range_unsigned(tg, T, lower, upper,
                        Widen(tg, T, [seed |-> Zeros(8), value |-> x], upper))

\* the draw x is used for the result
Accepted(tg, T, lower, upper, x) ==
    /\ CallWith(tg, T, lower, upper, x).status = "ok"
    /\ Len(CallWith(tg, T, lower, upper, x).leftovers) = 1

\* the number of accepted draws for which v is returned
Count(tg, T, lower, upper, v) ==
    Cardinality({x \in RawDraws :
                    /\ Accepted(tg, T, lower, upper, x)
                    /\ CallWith(tg, T, lower, upper, x).value = v})

\* C3: random_range returns a value uniformly distributed in [lower, upper):
\* no value outside the range is returned and, for the 8-bit types (counted
\* over every value of the draw), every value of the range is returned for the
\* same number of accepted draws.
C3_Uniform ==
    (IsRange /\ Ordered) =>
        /\ RangeReturned => InRange(last.typ, last.lower, last.upper, last.out)
        /\ last.typ \in {"u8", "i8"} =>
              /\ \A x \in RawDraws :
                    Accepted(target, last.typ, last.lower, last.upper, x) =>
                        InRange(last.typ, last.lower, last.upper,
                                CallWith(target, last.typ, last.lower, last.upper, x).value)
              /\ \A v, w \in {<<b>> : b \in 0..255} :
                    (/\ InRange(last.typ, last.lower, last.upper, v)
                     /\ InRange(last.typ, last.lower, last.upper, w)) =>
                        Count(target, last.typ, last.lower, last.upper, v)
                            = Count(target, last.typ, last.lower, last.upper, w)

\* C4: rand_with_seed(s) returns the bytes that rand() returns right after
\* reseed(s), for seeds of every length, and changes the state of no instance.
C4_SeededOutput ==
    [][ /\ last'.op = "rand_with_seed" =>
              /\ seed' = seed
              /\ last'.out = rand(target, reseed(target, last'.arg)).out
        /\ (last.op = "reseed" /\ last'.op = "rand") =>
              last'.out = rand_with_seed(target, last.arg) ]_vars

\* rand() right after a reseed with a seed shorter than the state
C4_Witness ==
    /\ last.op = "rand"
    /\ steps = 1
    /\ last.before = reseed(target, SubSeq(SeedBytes, 1, 3))
    /\ last.out = rand_with_seed(target, SubSeq(SeedBytes, 1, 3))

\* the first eight bytes of s, zero-padded when s is shorter
PadToState(s) == Bytes([i \in 1..8 |-> IF i <= Len(s) THEN s[i] ELSE 0])

\* C5: reseed(s) never fails and sets the state to the first min(len(s), 8)
\* bytes of s with the remaining state bytes zero: a short seed leaves the
\* state its zero-padded form leaves, and bytes beyond the eighth have no effect.
C5_Reseed ==
    /\ \A s \in SeedInputs : ENABLED Reseed(s)
    /\ last.op = "reseed" =>
          /\ to_ne_bytes(target, seed) = PadToState(last.arg)
          /\ seed = reseed(target, PadToState(last.arg))
          /\ seed = reseed(target, last.arg \o <<7, 7>>) <=> Len(last.arg) >= 8

\* a reseed with a non-empty seed shorter than the state
C5_Witness ==
    /\ last.op = "reseed"
    /\ Len(last.arg) \in 1..7
    /\ ~IsZero(seed)

\* the mix of the state s: (t >> 64) XOR (t mod 2^64) for the exact 128-bit
\* product t = s * (s XOR 0xe7037ed1a0b428db)
Mix(s) ==
    BitXor(SubSeq(MulLow(s, BitXor(s, WY_XOR), 16), 9, 16),
           SubSeq(MulLow(s, BitXor(s, WY_XOR), 16), 1, 8))

\* 0x111cb3a78f59a58e, the mix of 0xa0761d6478bd642f
MixOfAdd == <<142, 165, 89, 143, 167, 179, 28, 17>>

\* C6: rand() on state s sets the state to s' = s + 0xa0761d6478bd642f mod 2^64,
\* which differs from s, and returns the mix of the new state s'; from state 0
\* it returns the mix of 0xa0761d6478bd642f.
C6_Rand ==
    last.op = "rand" =>
        /\ wrapping_sub(seed, last.before) = WY_ADD
        /\ seed # last.before
        /\ last.out = to_ne_bytes(target, Mix(seed))
        /\ IsZero(last.before) => last.out = to_ne_bytes(target, MixOfAdd)

\* a rand() call on a generator in state 0
C6_Witness ==
    /\ last.op = "rand"
    /\ IsZero(last.before)
    /\ seed = WY_ADD

\* bit k (from 0) of the byte sequence a
Bit(a, k) == (a[(k \div 8) + 1] \div (2 ^ (k % 8))) % 2

\* r - b when b <= r, else r
Reduce(r, b) == IF ult(r, b) THEN r ELSE wrapping_sub(r, b)

\* the remainder of a by b, by long division from bit k of a down, with the
\* remainder so far r; r and b are one byte wider than a
RECURSIVE rem_from(_, _, _, _)
rem_from(a, b, k, r) ==
    IF k < 0 \/ Len(r) = 0 THEN r
    ELSE rem_from(a, b, k - 1, Reduce(add_from(r, r, 1, Bit(a, k)), b))

\* a mod b for unsigned a and b # 0 of one width
Remainder(a, b) ==
    SubSeq(rem_from(a, b \o <<0>>, 8 * Len(a) - 1, Zeros(Len(a) + 1)), 1, Len(a))

\* (2^W - upper) mod upper for the W-bit value upper, upper # 0
BiasedRegion(upper) == Remainder(wrapping_neg(upper), upper)

\* C7: whenever leftover < upper the threshold is (2^W - upper) mod upper in
\* unsigned W-bit arithmetic, and the draw is repeated exactly while
\* leftover < threshold.
C7_Threshold ==
    (IsRange /\ last.res.entered /\ ~IsZero(last.upper)) =>
        /\ last.res.panic = ""
        /\ last.res.threshold = BiasedRegion(last.upper)
        /\ \A i \in 1..Len(last.res.leftovers) :
              ult(last.res.leftovers[i], BiasedRegion(last.upper))
                  <=> (i < Len(last.res.leftovers) \/ last.res.status = "running")

\* C8: for the 8-, 16-, 32- and 64-bit types the drawn value fits in the bits
\* of the type before widening, and the product with upper does not overflow
\* the intermediate type.
C8_NoOverflow ==
    (IsRange /\ last.typ \notin {"u128", "i128"}) =>
        /\ Cast(Cast(last.res.random_bigger, Signed(bigger(last.typ)),
                     size_of(target, last.typ)),
                Signed(last.typ), size_of(target, bigger(last.typ)))
              = last.res.random_bigger
        /\ ~last.res.overflow

\* C9: random_range on a signed type returns what the unsigned random_range of
\* the same width returns on the same bytes from the same generator state, and
\* leaves the generator in the same state.
C9_SignedAsUnsigned ==
    (IsRange /\ Signed(last.typ)) =>
        /\ random_range_unsigned(target, last.before, unsigned_of(last.typ),
                                 last.lower, last.upper).status = last.res.status
        /\ random_range_unsigned(target, last.before, unsigned_of(last.typ),
                                 last.lower, last.upper).value = last.out
        /\ random_range_unsigned(target, last.before, unsigned_of(last.typ),
                                 last.lower, last.upper).seed = seed

\* C10: the result is the low-order bytes of the product, unshifted, exactly
\* for the 128-bit types and product >> (W*8) for every other type, and no
\* shift by the width of the intermediate type or more is performed.
C10_Selection ==
    (IsRange /\ last.res.branch # "") =>
        /\ last.res.branch = "low" <=> last.typ \in {"u128", "i128"}
        /\ last.res.branch = "high" =>
              last.res.shift < 8 * size_of(target, bigger(last.typ))

====
